---------------------------- MODULE Spec2Model ----------------------------
(***************************************************************************)
(* Falling-sand automaton of src/src/main.rs: the Grid (a row-major Vec of *)
(* optional materials), its coordinate indexing, the Sand movement rule,   *)
(* the tick Grid::update, and the frame loop of main.                      *)
(***************************************************************************)
EXTENDS Integers, Sequences, FiniteSets, TLC

(* ------------------------------ bounds -------------------------------- *)
\* Largest grid the model explores, and the most particles it lets the
\* caller put on a grid.
MaxWidth == 4
MaxHeight == 3
MaxParticles == 4
\* The same for the grids on which single coordinate accesses are explored.
MaxScanParticles == 3
MaxSettleWidth == 3
MaxSettleHeight == 3
MaxSettleParticles == 2
MaxAccessWidth == 3
MaxAccessHeight == 2
MaxAccessParticles == 2
\* Columns and rows of the grid the frame loop is explored on.
DriverCols == 4
DriverRows == 3
\* Most particles the pointer puts on the grid of the frame loop.
DriverParticles == 3

(* ------------------------- program constants -------------------------- *)
WIDTH == 1920
HEIGHT == 1024
PIXEL_SIZE == 5

VARIABLES
    grid,            \* the live Grid: [data, width, height]
    prev,            \* the Grid the last operation started from (the live grid after a placement)
    lastOp,          \* the last operation on the grid and how it ended
    moves,           \* last update: flat index of each occupied source cell -> the position its material returned
    writer,          \* last update: flat index of each written successor cell -> flat index of the source cell written there last
    overflowChecks,  \* build profile: TRUE when integer overflow panics (debug), FALSE when it wraps (release)
    status,          \* "ok" while the process runs, "panic" once it has aborted
    driver           \* main's frame loop: [pc, canvas, column, sameColumn, frame]; pc is "none" when the grid is driven directly

vars == <<grid, prev, lastOp, moves, writer, overflowChecks, status, driver>>

(* ------------------------------ values -------------------------------- *)
None == "None"
Sand == "Sand"
Cells == {None, Sand}

Point(x, y) == [x |-> x, y |-> y]

\* sdl2 Point::offset on the small coordinates of the model.
Offset(p, dx, dy) == Point(p.x + dx, p.y + dy)

(* ------------------------- usize arithmetic --------------------------- *)
\* A 64-bit usize that lies within 2^31 of 0 or of 2^64, written as
\* [top, off]: its value is off when top is FALSE and 2^64 + off (off < 0)
\* when top is TRUE.
AsUsize(v) == [top |-> v < 0, off |-> v]

\* a * w for a small w >= 0, wrapped to 64 bits.
UsizeMul(a, w) == [top |-> a.off * w < 0, off |-> a.off * w]
MulOverflows(a, w) == a.top /\ w >= 2

\* a + b wrapped to 64 bits.
UsizeAdd(a, b) == [top |-> a.off + b.off < 0, off |-> a.off + b.off]
AddOverflows(a, b) ==
    \/ a.top /\ b.top
    \/ (a.top # b.top) /\ a.off + b.off >= 0

(* ------------------------------- Grid --------------------------------- *)
\* Variant of Grid::new that pushes an occupied cell instead of None.
GridNewFilled(w, h) ==
    [data |-> [i \in 0 .. (w * h - 1) |-> "Sand"], width |-> w, height |-> h]

GridNew(w, h) ==
    [data |-> [i \in 0 .. (w * h - 1) |-> None], width |-> w, height |-> h]

DataLen(g) == Cardinality(DOMAIN g.data)

\* Outcome of indexing the Vec with the flat index computed from a point:
\* [ok, idx]. ok is FALSE when the access panics: on arithmetic overflow in
\* a build with overflow checks, or on an index past the end of the Vec.
FlatAccess(g, point, checks) ==
    LET uy == AsUsize(point.y)
        ux == AsUsize(point.x)
        prod == UsizeMul(uy, g.width)
        sum == UsizeAdd(prod, ux)
        overflow == MulOverflows(uy, g.width) \/ AddOverflows(prod, ux)
    IN  IF checks /\ overflow THEN [ok |-> FALSE, idx |-> -1]
        ELSE IF sum.top \/ sum.off >= DataLen(g) THEN [ok |-> FALSE, idx |-> -1]
        ELSE [ok |-> TRUE, idx |-> sum.off]

\* Index<Point>::index
Index(g, point, checks) == FlatAccess(g, point, checks)

\* The flat index with the coordinates swapped: x * width + y.
IndexMutTransposed(g, point, checks) == FlatAccess(g, Point(point.y, point.x), checks)

\* IndexMut<Point>::index_mut
IndexMut(g, point, checks) == FlatAccess(g, point, checks)

\* g[point], "panic" when the access panics.
ReadCell(g, point, checks) ==
    LET a == Index(g, point, checks)
    IN  IF a.ok THEN g.data[a.idx] ELSE "panic"

\* g[point] = v; the grid is returned unchanged when the access panics.
WriteCell(g, point, v, checks) ==
    LET a == IndexMut(g, point, checks)
    IN  IF a.ok THEN [g EXCEPT !.data[a.idx] = v] ELSE g

PointOf(g, idx) == Point(idx % g.width, idx \div g.width)

Occupied(g) == {i \in DOMAIN g.data : g.data[i] # None}

(* ------------------------------- Sand --------------------------------- *)
\* The movement rule with some of its parts left out or changed: floor,
\* left and right say whether the three early returns are present, and
\* blocked is what the last branch returns ("stay" or "down").
SandVariant(g, position, checks, floor, left, right, blocked) ==
    LET down == Offset(position, 0, 1)
        down_left == Offset(position, -1, 1)
        down_right == Offset(position, 1, 1)
        stay == [ok |-> TRUE, point |-> position]
        abort == [ok |-> FALSE, point |-> position]
    IN  IF floor /\ down.y >= g.height THEN stay
        ELSE IF left /\ down_left.x < 0 THEN stay
        ELSE IF right /\ down_right.x >= g.width THEN stay
        ELSE IF ReadCell(g, down, checks) = "panic" THEN abort
        ELSE IF ReadCell(g, down, checks) = None THEN [ok |-> TRUE, point |-> down]
        ELSE IF ReadCell(g, down_left, checks) = "panic" THEN abort
        ELSE IF ReadCell(g, down_left, checks) = None THEN [ok |-> TRUE, point |-> down_left]
        ELSE IF ReadCell(g, down_right, checks) = "panic" THEN abort
        ELSE IF ReadCell(g, down_right, checks) = None THEN [ok |-> TRUE, point |-> down_right]
        ELSE IF blocked = "down" THEN [ok |-> TRUE, point |-> down]
        ELSE stay

\* Sand::update without the floor check of line 98.
SandUpdateNoFloor(g, position, checks) ==
    SandVariant(g, position, checks, FALSE, TRUE, TRUE, "stay")

\* Sand::update without the left-edge check of line 100.
SandUpdateNoLeftGuard(g, position, checks) ==
    SandVariant(g, position, checks, TRUE, FALSE, TRUE, "stay")

\* Sand::update whose last branch returns down instead of position.
SandUpdateNoStay(g, position, checks) ==
    SandVariant(g, position, checks, TRUE, TRUE, TRUE, "down")

\* Sand::update that moves down without looking at the cell below.
SandUpdateDownUnchecked(g, position, checks) ==
    LET down == Offset(position, 0, 1)
        down_left == Offset(position, -1, 1)
        down_right == Offset(position, 1, 1)
    IN  IF down.y >= g.height THEN [ok |-> TRUE, point |-> position]
        ELSE IF down_left.x < 0 THEN [ok |-> TRUE, point |-> position]
        ELSE IF down_right.x >= g.width THEN [ok |-> TRUE, point |-> position]
        ELSE [ok |-> TRUE, point |-> down]

\* Sand::update that, on the floor, moves up into an empty cell above.
SandUpdateBounces(g, position, checks) ==
    LET up == Offset(position, 0, -1)
    IN  IF Offset(position, 0, 1).y >= g.height /\ up.y >= 0
           /\ ReadCell(g, up, checks) = None
        THEN [ok |-> TRUE, point |-> up]
        ELSE SandVariant(g, position, checks, TRUE, TRUE, TRUE, "stay")

\* Sand::update: [ok, point]; ok is FALSE when a read of the grid panics.
SandUpdate(g, position, checks) ==
    LET down == Offset(position, 0, 1)
        down_left == Offset(position, -1, 1)
        down_right == Offset(position, 1, 1)
        stay == [ok |-> TRUE, point |-> position]
        abort == [ok |-> FALSE, point |-> position]
    IN  IF down.y >= g.height THEN stay
        ELSE IF down_left.x < 0 THEN stay
        ELSE IF down_right.x >= g.width THEN stay
        ELSE IF ReadCell(g, down, checks) = "panic" THEN abort
        ELSE IF ReadCell(g, down, checks) = None THEN [ok |-> TRUE, point |-> down]
        ELSE IF ReadCell(g, down_left, checks) = "panic" THEN abort
        ELSE IF ReadCell(g, down_left, checks) = None THEN [ok |-> TRUE, point |-> down_left]
        ELSE IF ReadCell(g, down_right, checks) = "panic" THEN abort
        ELSE IF ReadCell(g, down_right, checks) = None THEN [ok |-> TRUE, point |-> down_right]
        ELSE stay

(* ---------------------------- Grid::update ---------------------------- *)
\* The body of the loop of Grid::update for the cell at flat index idx, on
\* which the material decides on the successor built so far.
ScanCellOnSuccessor(self, idx, acc, checks) ==
    IF self.data[idx] = None THEN acc
    ELSE
        LET position == PointOf(self, idx)
            r == SandUpdate(acc.new_grid, position, checks)
            src == ReadCell(self, position, checks)
            dst == IndexMut(acc.new_grid, r.point, checks)
        IN  IF ~r.ok \/ src = "panic" \/ ~dst.ok
            THEN [acc EXCEPT !.ok = FALSE]
            ELSE [ok |-> TRUE,
                  new_grid |-> WriteCell(acc.new_grid, r.point, src, checks),
                  moves |-> (idx :> r.point) @@ acc.moves,
                  writer |-> (dst.idx :> idx) @@ acc.writer]

\* The body of the loop of Grid::update for the cell at flat index idx. acc
\* is [ok, new_grid, moves, writer]: the successor built so far, the
\* position returned for each source cell scanned and, for each successor
\* cell written, the source cell of the last write; ok turns FALSE when the
\* scan panics.
ScanCell(self, idx, acc, checks) ==
    IF self.data[idx] = None THEN acc
    ELSE
        LET position == PointOf(self, idx)
            src == ReadCell(self, position, checks)
            Store(r) ==
                LET dst == IndexMut(acc.new_grid, r.point, checks)
                IN  IF ~r.ok \/ src = "panic" \/ ~dst.ok
                    THEN [acc EXCEPT !.ok = FALSE]
                    ELSE [ok |-> TRUE,
                          new_grid |-> WriteCell(acc.new_grid, r.point, src, checks),
                          moves |-> (idx :> r.point) @@ acc.moves,
                          writer |-> (dst.idx :> idx) @@ acc.writer]
        IN  CHOOSE out \in {Store(new_position) :
                               new_position \in {SandUpdate(self, position, checks)}} : TRUE

\* The scan of Grid::update from flat index idx on, in ascending order:
\* next is the state of the scan after the body has run for idx.
RECURSIVE UpdateScan(_, _, _, _)
UpdateScan(self, idx, acc, checks) ==
    IF ~acc.ok \/ idx >= DataLen(self) THEN acc
    ELSE CHOOSE out \in {UpdateScan(self, idx + 1, next, checks) :
                            next \in {ScanCell(self, idx, acc, checks)}} : TRUE

\* The scan with one part changed: with fromSuccessor the material decides
\* on the successor built so far instead of on self, and with keepFirst a
\* successor cell already written is not written again.
RECURSIVE ScanVariant(_, _, _, _, _, _)
ScanVariant(self, idx, acc, checks, fromSuccessor, keepFirst) ==
    IF ~acc.ok \/ idx >= DataLen(self) THEN acc
    ELSE IF self.data[idx] = None
    THEN ScanVariant(self, idx + 1, acc, checks, fromSuccessor, keepFirst)
    ELSE
        LET position == PointOf(self, idx)
            r == SandUpdate(IF fromSuccessor THEN acc.new_grid ELSE self, position, checks)
            src == ReadCell(self, position, checks)
            dst == IndexMut(acc.new_grid, r.point, checks)
            skip == keepFirst /\ dst.ok /\ acc.new_grid.data[dst.idx] # None
        IN  IF ~r.ok \/ src = "panic" \/ ~dst.ok
            THEN [acc EXCEPT !.ok = FALSE]
            ELSE ScanVariant(self, idx + 1,
                    [ok |-> TRUE,
                     new_grid |-> IF skip THEN acc.new_grid
                                  ELSE WriteCell(acc.new_grid, r.point, src, checks),
                     moves |-> (idx :> r.point) @@ acc.moves,
                     writer |-> IF skip THEN acc.writer ELSE (dst.idx :> idx) @@ acc.writer],
                    checks, fromSuccessor, keepFirst)

\* Grid::update whose materials decide on the successor under construction.
GridUpdateReadsSuccessor(self, checks) ==
    ScanVariant(self, 0,
        [ok |-> TRUE, new_grid |-> GridNew(self.width, self.height),
         moves |-> <<>>, writer |-> <<>>],
        checks, TRUE, FALSE)

\* Grid::update that keeps the first particle written to a cell.
GridUpdateFirstWins(self, checks) ==
    ScanVariant(self, 0,
        [ok |-> TRUE, new_grid |-> GridNew(self.width, self.height),
         moves |-> <<>>, writer |-> <<>>],
        checks, FALSE, TRUE)

\* Grid::update that fills a copy of self instead of a fresh grid.
GridUpdateOnCopy(self, checks) ==
    UpdateScan(self, 0,
        [ok |-> TRUE, new_grid |-> self, moves |-> <<>>, writer |-> <<>>],
        checks)

\* Grid::update whose successor is built with width and height exchanged.
GridUpdateSwapsDims(self, checks) ==
    UpdateScan(self, 0, [ok |-> TRUE, new_grid |-> GridNew(self.height, self.width),
                         moves |-> <<>>, writer |-> <<>>], checks)

GridUpdate(self, checks) ==
    UpdateScan(self, 0,
        [ok |-> TRUE, new_grid |-> GridNew(self.width, self.height),
         moves |-> <<>>, writer |-> <<>>],
        checks)

(* ----------------------------- operations ----------------------------- *)
NoPoint == Point(0, 0)

Op(name, point, value, outcome, result) ==
    [op |-> name, point |-> point, value |-> value, outcome |-> outcome, result |-> result]

InBounds(g, p) == 0 <= p.x /\ p.x < g.width /\ 0 <= p.y /\ p.y < g.height

\* Every in-range position of the grid.
Positions(g) == {Point(x, y) : x \in 0 .. g.width - 1, y \in 0 .. g.height - 1}

\* Points a caller may pass: the grid and one ring of cells around it.
Points(g) == {Point(x, y) : x \in -1 .. g.width, y \in -1 .. g.height}

\* The frame loop's state when the grid is driven directly.
NoDriver == [pc |-> "none", canvas |-> <<>>, column |-> -1, sameColumn |-> TRUE, frame |-> <<>>]

\* Grid::new(w, h) by the caller, in either build profile.
Construct(w, h, d) ==
    /\ driver = d
    /\ grid = GridNew(w, h)
    /\ prev = grid
    /\ lastOp = Op("new", NoPoint, None, "ok", None)
    /\ moves = <<>>
    /\ writer = <<>>
    /\ overflowChecks \in BOOLEAN
    /\ status = "ok"

Init == \E w \in 1 .. MaxWidth, h \in 1 .. MaxHeight : Construct(w, h, NoDriver)

\* grid[point] = Some(Box::new(Sand)) at a position of the grid
Place(point) ==
    /\ status = "ok"
    /\ driver.pc = "none"
    /\ Cardinality(Occupied(grid)) < MaxParticles
    /\ LET a == IndexMut(grid, point, overflowChecks)
       IN  /\ grid' = WriteCell(grid, point, Sand, overflowChecks)
           /\ status' = IF a.ok THEN "ok" ELSE "panic"
           /\ lastOp' = Op("place", NoPoint, Sand, IF a.ok THEN "ok" ELSE "panic", None)
    /\ prev' = grid'
    /\ moves' = <<>>
    /\ writer' = <<>>
    /\ UNCHANGED <<overflowChecks, driver>>

\* grid.update()
Update ==
    /\ status = "ok"
    /\ driver.pc = "none"
    /\ \E r \in {GridUpdate(grid, overflowChecks)} :
           /\ grid' = IF r.ok THEN r.new_grid ELSE grid
           /\ status' = IF r.ok THEN "ok" ELSE "panic"
           /\ lastOp' = Op("update", NoPoint, None, IF r.ok THEN "ok" ELSE "panic", None)
           /\ moves' = r.moves
           /\ writer' = r.writer
    /\ prev' = grid
    /\ UNCHANGED <<overflowChecks, driver>>

PlaceStep == \E p \in Positions(grid) : Place(p)

Next ==
    \/ PlaceStep
    \/ Update

\* Any sequence of placements and ticks on a fresh grid.
Spec == Init /\ [][Next]_vars

\* Placement and update with few particles, for properties that quantify
\* over every order of the occupied cells.
PlaceFew(point) ==
    /\ Cardinality(Occupied(grid)) < MaxScanParticles
    /\ Place(point)

PlaceFewStep == \E p \in Positions(grid) : PlaceFew(p)

NextScan ==
    \/ PlaceFewStep
    \/ Update

SpecScan == Init /\ [][NextScan]_vars

\* Placement and update on small grids with the update of every frame: main
\* calls grid.update() in each iteration of its loop, so an update that can
\* change the state is not put off forever.
InitSettle == \E w \in 1 .. MaxSettleWidth, h \in 1 .. MaxSettleHeight : Construct(w, h, NoDriver)

PlaceSettle(point) ==
    /\ Cardinality(Occupied(grid)) < MaxSettleParticles
    /\ Place(point)

PlaceSettleStep == \E p \in Positions(grid) : PlaceSettle(p)

NextSettle ==
    \/ PlaceSettleStep
    \/ Update

SpecSettle == InitSettle /\ [][NextSettle]_vars /\ WF_vars(Update)

(* ------------------------- coordinate accesses ------------------------ *)
InitAccess == \E w \in 1 .. MaxAccessWidth, h \in 1 .. MaxAccessHeight : Construct(w, h, NoDriver)

\* grid[point] = v
Set(point, v) ==
    /\ status = "ok"
    /\ v = Sand => Cardinality(Occupied(grid)) < MaxAccessParticles
    /\ LET a == IndexMut(grid, point, overflowChecks)
       IN  /\ grid' = WriteCell(grid, point, v, overflowChecks)
           /\ status' = IF a.ok THEN "ok" ELSE "panic"
           /\ lastOp' = Op("set", point, v, IF a.ok THEN "ok" ELSE "panic", None)
    /\ prev' = grid
    /\ moves' = <<>>
    /\ writer' = <<>>
    /\ UNCHANGED <<overflowChecks, driver>>

\* grid[point]
Get(point) ==
    /\ status = "ok"
    /\ LET c == ReadCell(grid, point, overflowChecks)
       IN  /\ status' = IF c = "panic" THEN "panic" ELSE "ok"
           /\ lastOp' = Op("get", point, None, IF c = "panic" THEN "panic" ELSE "ok", c)
    /\ prev' = grid
    /\ moves' = <<>>
    /\ writer' = <<>>
    /\ UNCHANGED <<grid, overflowChecks, driver>>

SetStep == \E p \in Points(grid), v \in Cells : Set(p, v)
GetStep == \E p \in Points(grid) : Get(p)

NextAccess ==
    \/ SetStep
    \/ GetStep

\* Any sequence of reads and writes by coordinate, in range or not.
SpecAccess == InitAccess /\ [][NextAccess]_vars

(* --------------------------- the frame loop --------------------------- *)
\* The window of the model: DriverCols x DriverRows whole cells, plus the
\* pixels that WIDTH and HEIGHT leave over after the last whole cell.
WindowWidth == DriverCols * PIXEL_SIZE + (WIDTH % PIXEL_SIZE)
WindowHeight == DriverRows * PIXEL_SIZE + (HEIGHT % PIXEL_SIZE)

\* Sand::color
SandColor == <<198, 178, 128>>

\* Grid::draw: the rectangles filled, in flat-index order from idx on.
RECURSIVE DrawFrom(_, _)
DrawFrom(g, idx) ==
    IF idx >= DataLen(g) THEN <<>>
    ELSE IF g.data[idx] = None THEN DrawFrom(g, idx + 1)
    ELSE <<[center |-> Point((idx % g.width) * PIXEL_SIZE, (idx \div g.width) * PIXEL_SIZE),
            size |-> PIXEL_SIZE,
            color |-> SandColor]>> \o DrawFrom(g, idx + 1)

\* Grid::draw with the two coordinates of every rectangle exchanged.
GridDrawTransposed(g) ==
    LET out == DrawFrom(g, 0)
    IN  [k \in DOMAIN out |-> [out[k] EXCEPT !.center = Point(out[k].center.y, out[k].center.x)]]

GridDraw(g) == DrawFrom(g, 0)

\* main up to the first iteration of 'running.
InitDriver ==
    Construct(WindowWidth \div PIXEL_SIZE, WindowHeight \div PIXEL_SIZE,
              [pc |-> "events", canvas |-> <<>>, column |-> -1, sameColumn |-> TRUE, frame |-> <<>>])

\* for event in event_pump.poll_iter(): Quit or Escape leaves the loop.
PollEvents(quit) ==
    /\ status = "ok"
    /\ driver.pc = "events"
    /\ driver' = [driver EXCEPT !.pc = IF quit THEN "exit" ELSE "input", !.frame = <<>>]
    /\ UNCHANGED <<grid, prev, lastOp, moves, writer, overflowChecks, status>>

\* A frame without placement that goes on to clear without the update.
IdleSkipsUpdate ==
    /\ status = "ok"
    /\ driver.pc = "input"
    /\ driver' = [driver EXCEPT !.pc = "clear", !.frame = Append(@, "input")]
    /\ prev' = grid
    /\ moves' = <<>>
    /\ writer' = <<>>
    /\ UNCHANGED <<grid, status, lastOp, overflowChecks>>

\* mouse_state() with the left button up: nothing is placed.
Idle ==
    /\ status = "ok"
    /\ driver.pc = "input"
    /\ driver' = [driver EXCEPT !.pc = "update", !.frame = Append(@, "input")]
    /\ prev' = grid
    /\ moves' = <<>>
    /\ writer' = <<>>
    /\ UNCHANGED <<grid, status, lastOp, overflowChecks>>

\* mouse_state() with the left button down and the pointer at pixel
\* (px, py) of the window: grid[cursor] = Some(Box::new(Sand)).
Input(px, py) ==
    /\ status = "ok"
    /\ driver.pc = "input"
    /\ Cardinality(Occupied(grid)) < DriverParticles
    /\ LET cursor == Point(px \div PIXEL_SIZE, py \div PIXEL_SIZE)
           a == IndexMut(grid, cursor, overflowChecks)
       IN  /\ grid' = WriteCell(grid, cursor, Sand, overflowChecks)
           /\ status' = IF a.ok THEN "ok" ELSE "panic"
           /\ lastOp' = Op("place", cursor, Sand, IF a.ok THEN "ok" ELSE "panic", None)
           /\ driver' = [driver EXCEPT
                           !.pc = "update",
                           !.frame = Append(@, "place"),
                           !.column = cursor.x,
                           !.sameColumn = @ /\ driver.column \in {-1, cursor.x}]
    /\ prev' = grid'
    /\ moves' = <<>>
    /\ writer' = <<>>
    /\ UNCHANGED overflowChecks

\* grid.update() of the frame
Tick ==
    /\ status = "ok"
    /\ driver.pc = "update"
    /\ \E r \in {GridUpdate(grid, overflowChecks)} :
           /\ grid' = IF r.ok THEN r.new_grid ELSE grid
           /\ status' = IF r.ok THEN "ok" ELSE "panic"
           /\ lastOp' = Op("update", NoPoint, None, IF r.ok THEN "ok" ELSE "panic", None)
           /\ moves' = r.moves
           /\ writer' = r.writer
    /\ prev' = grid
    /\ driver' = [driver EXCEPT !.pc = "clear", !.frame = Append(@, "update")]
    /\ UNCHANGED overflowChecks

\* canvas.set_draw_color(black); canvas.clear()
Clear ==
    /\ status = "ok"
    /\ driver.pc = "clear"
    /\ driver' = [driver EXCEPT !.pc = "draw", !.canvas = <<>>, !.frame = Append(@, "clear")]
    /\ UNCHANGED <<grid, prev, lastOp, moves, writer, overflowChecks, status>>

\* grid.draw(&mut canvas)
Draw ==
    /\ status = "ok"
    /\ driver.pc = "draw"
    /\ driver' = [driver EXCEPT !.pc = "present", !.canvas = @ \o GridDraw(grid),
                                 !.frame = Append(@, "draw")]
    /\ UNCHANGED <<grid, prev, lastOp, moves, writer, overflowChecks, status>>

\* canvas.present(), and back to the top of the loop
Present ==
    /\ status = "ok"
    /\ driver.pc = "present"
    /\ driver' = [driver EXCEPT !.pc = "events", !.frame = Append(@, "present")]
    /\ UNCHANGED <<grid, prev, lastOp, moves, writer, overflowChecks, status>>

PollStep == \E quit \in BOOLEAN : PollEvents(quit)
InputStep ==
    \E px \in 0 .. WindowWidth - 1, py \in 0 .. WindowHeight - 1 : Input(px, py)

NextDriver ==
    \/ PollStep
    \/ Idle
    \/ InputStep
    \/ Tick
    \/ Clear
    \/ Draw
    \/ Present

\* main: the frame loop, the pointer anywhere in the window.
SpecDriver == InitDriver /\ [][NextDriver]_vars

(* =============================== claims =============================== *)
\* Helpers of the statements below, written from the row-major layout.
At(g, p) == g.data[p.y * g.width + p.x]
Pos(g, i) == Point(i % g.width, i \div g.width)
Free(g, p) == InBounds(g, p) /\ At(g, p) = None
Taken(g, p) == InBounds(g, p) /\ At(g, p) # None
Below(p) == Point(p.x, p.y + 1)
BelowLeft(p) == Point(p.x - 1, p.y + 1)
BelowRight(p) == Point(p.x + 1, p.y + 1)
Ticked == lastOp.op = "update"

\* The movement rule as the bounds policy states it: the first of down,
\* down-left, down-right that is in the grid and empty, else stay.
RuleChoice(g, p) ==
    IF Free(g, Below(p)) THEN Below(p)
    ELSE IF Free(g, BelowLeft(p)) THEN BelowLeft(p)
    ELSE IF Free(g, BelowRight(p)) THEN BelowRight(p)
    ELSE p

\* C1: a lone Sand particle at (x,y) above the bottom row, in any column,
\* is at (x,y+1) after one update and no other cell is occupied.
C1_LoneSandFallsOneRow ==
    Ticked =>
        \A p \in Positions(prev) :
            (Occupied(prev) = {p.y * prev.width + p.x} /\ p.y + 1 < prev.height)
                => /\ lastOp.outcome = "ok"
                   /\ Occupied(grid) = {(p.y + 1) * grid.width + p.x}

\* C2: in the edge columns x = 0 and x = width-1, above the bottom row, the
\* candidate that leaves the grid is only skipped: the particle takes the
\* first candidate that is in the grid and empty before the tick.
C2_EdgeColumnsFallThrough ==
    (Ticked /\ lastOp.outcome = "ok") =>
        \A i \in DOMAIN moves :
            LET p == Pos(prev, i)
            IN  (p.y + 1 < prev.height /\ (p.x = 0 \/ p.x = prev.width - 1))
                    => moves[i] = RuleChoice(prev, p)

\* C3: a particle whose cell below is occupied moves down-left when that
\* cell is in the grid and empty, down-right when down-left is occupied and
\* down-right is in the grid and empty, and stays when all three are occupied.
C3_PriorityOrder ==
    (Ticked /\ lastOp.outcome = "ok") =>
        \A i \in DOMAIN moves :
            LET p == Pos(prev, i)
            IN  Taken(prev, Below(p)) =>
                    /\ Free(prev, BelowLeft(p)) => moves[i] = BelowLeft(p)
                    /\ (Taken(prev, BelowLeft(p)) /\ Free(prev, BelowRight(p)))
                            => moves[i] = BelowRight(p)
                    /\ (Taken(prev, BelowLeft(p)) /\ Taken(prev, BelowRight(p)))
                            => moves[i] = p

\* C4: an update completes, leaves every bottom-row particle where it was,
\* and sends no particle to a row >= height.
C4_FloorHolds ==
    Ticked =>
        /\ lastOp.outcome = "ok"
        /\ \A i \in Occupied(prev) :
            /\ i \in DOMAIN moves
            /\ moves[i].y < prev.height
            /\ Pos(prev, i).y = prev.height - 1
                    => (moves[i] = Pos(prev, i) /\ grid.data[i] = Sand)

\* C4 witness: a tick of a grid holding a bottom-row particle with another
\* particle right above it.
C4_Witness ==
    /\ Ticked
    /\ \E i \in Occupied(prev) :
        /\ Pos(prev, i).y = prev.height - 1
        /\ prev.height >= 2
        /\ (i - prev.width) \in Occupied(prev)

\* C7: every occupied cell gets a decision, and the decision is a position
\* of the grid that is the particle's own or one of the three cells below
\* it, the latter only when that cell was empty before the tick.
C7_DecisionInGridAdjacentEmpty ==
    Ticked =>
        /\ DOMAIN moves = Occupied(prev)
        /\ \A i \in DOMAIN moves :
            LET p == Pos(prev, i)
            IN  /\ InBounds(prev, moves[i])
                /\ moves[i] \in {p, Below(p), BelowLeft(p), BelowRight(p)}
                /\ moves[i] # p => At(prev, moves[i]) = None

\* C7 witness: one tick in which a particle moved diagonally and another
\* stayed.
C7_Witness ==
    /\ Ticked
    /\ \E i \in DOMAIN moves : moves[i].x # Pos(prev, i).x
    /\ \E i \in DOMAIN moves : moves[i] = Pos(prev, i)

\* Every occupied cell has its three lower neighbours occupied or out of
\* the grid.
Settled(g) ==
    \A i \in Occupied(g) :
        \A q \in {Below(Pos(g, i)), BelowLeft(Pos(g, i)), BelowRight(Pos(g, i))} :
            ~Free(g, q)

\* C8: the update of a settled grid completes and yields the same grid.
C8_SettledIsFixedPoint ==
    (Ticked /\ Settled(prev)) => (lastOp.outcome = "ok" /\ grid = prev)

\* C8 witness: a tick of a settled grid in which some particle has all
\* three lower neighbours in the grid and occupied.
C8_Witness ==
    /\ Ticked
    /\ Settled(prev)
    /\ \E i \in Occupied(prev) :
        /\ Taken(prev, Below(Pos(prev, i)))
        /\ Taken(prev, BelowLeft(Pos(prev, i)))
        /\ Taken(prev, BelowRight(Pos(prev, i)))

\* C9: a fresh grid has width*height cells, all empty, and the update of a
\* grid with no occupied cell completes with no occupied cell.
C9_EmptyStaysEmpty ==
    /\ lastOp.op = "new" =>
            (Occupied(grid) = {} /\ DOMAIN grid.data = 0 .. (grid.width * grid.height - 1))
    /\ (Ticked /\ Occupied(prev) = {}) =>
            (lastOp.outcome = "ok" /\ Occupied(grid) = {} /\ DOMAIN grid.data = DOMAIN prev.data)

\* C9 witness: a tick of an empty grid of more than one cell.
C9_Witness ==
    Ticked /\ Occupied(prev) = {} /\ grid.width * grid.height > 1

\* C5: while every placement of the frame loop has been in one column, a
\* completed tick sends no two particles to the same cell, so it keeps the
\* number of occupied cells.
C5_ColumnDropsNeverOverlap ==
    (driver.pc = "clear" /\ driver.sameColumn /\ lastOp.outcome = "ok") =>
        /\ \A i, j \in DOMAIN moves : moves[i] = moves[j] => i = j
        /\ Cardinality(Occupied(grid)) = Cardinality(Occupied(prev))

\* C6: a read or write at a point outside [0,width) x [0,height) fails and
\* leaves every cell as it was.
C6_OutOfRangeAccessFails ==
    (lastOp.op \in {"set", "get"} /\ ~InBounds(prev, lastOp.point)) =>
        (lastOp.outcome = "panic" /\ grid = prev)

\* C10: after grid[P] = v at a position P of the grid, grid[P] reads v, and
\* every other cell and the dimensions are as before the write.
C10_SetThenGet ==
    (lastOp.op = "set" /\ InBounds(prev, lastOp.point)) =>
        /\ lastOp.outcome = "ok"
        /\ ReadCell(grid, lastOp.point, overflowChecks) = lastOp.value
        /\ grid.width = prev.width /\ grid.height = prev.height
        /\ DOMAIN grid.data = DOMAIN prev.data
        /\ \A i \in DOMAIN prev.data :
                i # lastOp.point.y * prev.width + lastOp.point.x
                    => grid.data[i] = prev.data[i]

\* C10 witness: an occupied cell overwritten with empty while another cell
\* stays occupied.
C10_Witness ==
    /\ lastOp.op = "set"
    /\ InBounds(prev, lastOp.point)
    /\ At(prev, lastOp.point) = Sand
    /\ lastOp.value = None
    /\ Occupied(grid) # {}

\* Flat index of a position, row-major.
Flat(g, p) == p.y * g.width + p.x

\* C11: after a tick the occupied cells are exactly the destinations of the
\* decisions, and each decision is the one the material takes on the grid
\* as it was before the tick.
C11_SuccessorIsImageOfDecisions ==
    Ticked =>
        /\ lastOp.outcome = "ok"
        /\ DOMAIN moves = Occupied(prev)
        /\ \A i \in DOMAIN moves :
                moves[i] = SandUpdate(prev, Pos(prev, i), overflowChecks).point
        /\ Occupied(grid) = {Flat(prev, moves[i]) : i \in DOMAIN moves}

\* C11 witness: a tick in which a particle moved into a cell and left its
\* own cell empty, while another cell is no destination and stays empty.
C11_Witness ==
    /\ Ticked
    /\ \E i \in Occupied(prev) : moves[i] # Pos(prev, i) /\ grid.data[i] = None
    /\ \E c \in DOMAIN grid.data : c \notin Occupied(prev) /\ c \notin Occupied(grid)
    /\ Cardinality(Occupied(prev)) >= 2

\* C12: a particle whose decision is its own cell P is in P after the tick:
\* P is occupied, the last write to P is that particle's own, and no other
\* particle's decision is P.
C12_StayerKeepsItsCell ==
    (Ticked /\ lastOp.outcome = "ok") =>
        \A i \in DOMAIN moves :
            moves[i] = Pos(prev, i) =>
                /\ grid.data[i] = prev.data[i]
                /\ i \in DOMAIN writer /\ writer[i] = i
                /\ \A j \in DOMAIN moves : moves[j] = moves[i] => j = i

\* C12 witness: a tick in which a particle stays while the particle right
\* above it moves away diagonally.
C12_Witness ==
    /\ Ticked
    /\ \E i \in DOMAIN moves :
        /\ moves[i] = Pos(prev, i)
        /\ (i - prev.width) \in DOMAIN moves
        /\ moves[i - prev.width].x # Pos(prev, i).x

\* C13: a successor cell that is the destination of several particles holds
\* the one whose source cell has the greatest flat index, and every cell of
\* the successor holds the particle written to it last.
C13_LastWriteWins ==
    (Ticked /\ lastOp.outcome = "ok") =>
        /\ DOMAIN writer = Occupied(grid)
        /\ \A c \in DOMAIN writer :
            /\ Flat(prev, moves[writer[c]]) = c
            /\ \A j \in DOMAIN moves : Flat(prev, moves[j]) = c => j <= writer[c]
        /\ \A i, j \in DOMAIN moves :
                (i < j /\ moves[i] = moves[j]) => \A c \in DOMAIN writer : writer[c] # i

\* C13 witness: a tick in which two particles chose the same destination.
C13_Witness ==
    /\ Ticked
    /\ lastOp.outcome = "ok"
    /\ \E i, j \in DOMAIN moves : i < j /\ moves[i] = moves[j]


\* The loop body of Grid::update applied to the cells of order, one after
\* the other: the scan in an order other than the ascending one.
RECURSIVE ScanInOrder(_, _, _, _)
ScanInOrder(self, order, acc, checks) ==
    IF ~acc.ok \/ order = <<>> THEN acc
    ELSE ScanInOrder(self, Tail(order), ScanCell(self, Head(order), acc, checks), checks)

\* Every enumeration without repetition of the set S.
Orders(S) ==
    {f \in [1 .. Cardinality(S) -> S] : \A a, b \in DOMAIN f : f[a] = f[b] => a = b}

\* C14: the occupancy after a tick does not depend on the order in which the
\* occupied cells are scanned: scanning the cells of the pre-tick grid in any
\* order builds the very successor the tick produced.
C14_OrderIndependent ==
    (Ticked /\ lastOp.outcome = "ok") =>
        \A order \in Orders(Occupied(prev)) :
            LET r == ScanInOrder(prev, order,
                                 [ok |-> TRUE, new_grid |-> GridNew(prev.width, prev.height),
                                  moves |-> <<>>, writer |-> <<>>], overflowChecks)
            IN  r.ok /\ Occupied(r.new_grid) = Occupied(grid) /\ r.new_grid = grid

C14_Witness ==
    /\ Ticked /\ lastOp.outcome = "ok"
    /\ Cardinality(Occupied(prev)) = MaxScanParticles
    /\ \E i, j \in DOMAIN moves : i < j /\ moves[i] = moves[j]
    /\ \E i \in DOMAIN moves : moves[i] = Pos(prev, i)


\* C15: every cell main writes for a pointer pixel inside the window lies in
\* the grid it constructed: 0 <= x < width, 0 <= y < height, and the write
\* succeeds.
C15_InputMappingInBounds ==
    (driver.pc # "none" /\ lastOp.op = "place") =>
        /\ InBounds(grid, lastOp.point)
        /\ lastOp.outcome = "ok"


\* The k-th occupied cell of g in ascending flat-index order.
NthOccupied(g, k) ==
    CHOOSE i \in Occupied(g) : Cardinality({j \in Occupied(g) : j < i}) = k - 1

\* C16: the frame Grid::draw has just painted on the cleared canvas holds
\* exactly one rectangle per occupied cell and none for an empty cell, in
\* ascending flat-index order, the k-th one for the cell
\* (idx % width, idx / width) of the k-th occupied index idx (its centre is
\* that coordinate scaled by the cell size), so the sequence is determined
\* by the grid alone; and the draw step leaves the grid unchanged.
C16_DrawOneEntryPerOccupiedCell ==
    /\ [](driver.pc = "present" =>
            /\ Len(driver.canvas) = Cardinality(Occupied(grid))
            /\ \A k \in DOMAIN driver.canvas :
                   LET idx == NthOccupied(grid, k)
                   IN  /\ driver.canvas[k].center.x = (idx % grid.width) * PIXEL_SIZE
                       /\ driver.canvas[k].center.y = (idx \div grid.width) * PIXEL_SIZE
                       /\ driver.canvas[k].size = PIXEL_SIZE)
    /\ [][driver.pc = "draw" => (grid' = grid /\ status' = status)]_vars

C16_Witness ==
    /\ driver.pc = "present"
    /\ Len(driver.canvas) >= 2
    /\ \E c \in DOMAIN grid.data : grid.data[c] = None
    /\ \E k \in DOMAIN driver.canvas : driver.canvas[k].center.x # driver.canvas[k].center.y


\* The steps of one iteration of the frame loop, first the input step with
\* or without a placement.
FrameSteps(first) == <<first, "update", "clear", "draw", "present">>

\* The number of steps of the current iteration done when main is at pc.
StepsDone(pc) ==
    CASE pc = "input" -> {0}
      [] pc = "update" -> {1}
      [] pc = "clear" -> {2}
      [] pc = "draw" -> {3}
      [] pc = "present" -> {4}
      [] OTHER -> {0, 5}

\* C17: the steps of every iteration of the frame loop are, in this order,
\* the input step (with the placement if the button is down), one update,
\* clear, draw, present: what has run of the current iteration is the
\* prefix of that list up to where main stands, so update has run exactly
\* once, placement or not, when the frame is cleared, drawn and presented,
\* and the grid that is drawn is the result of an update.
C17_FrameOrder ==
    driver.pc # "none" =>
        /\ Len(driver.frame) \in StepsDone(driver.pc)
        /\ \E first \in {"input", "place"} :
               driver.frame = SubSeq(FrameSteps(first), 1, Len(driver.frame))
        /\ driver.pc = "update" =>
               (driver.frame = <<"place">> <=> lastOp.op = "place")
        /\ driver.pc \in {"clear", "draw", "present"} =>
               /\ Ticked
               /\ Cardinality({k \in DOMAIN driver.frame : driver.frame[k] = "update"}) = 1
        /\ (driver.pc = "present" /\ status = "ok") =>
               Len(driver.canvas) = Cardinality(Occupied(grid))

C17_Witness ==
    /\ driver.pc = "events"
    /\ driver.frame = FrameSteps("place")
    /\ grid # prev
    /\ driver.canvas # <<>>


\* C18: through every placement and update the grid keeps the width and
\* height it was constructed with, its cell array has exactly width*height
\* entries, and the cell (x,y) is the entry at flat index y*width + x.
C18_DimensionsAndLayout ==
    /\ [](/\ grid.width \in 1 .. MaxWidth /\ grid.height \in 1 .. MaxHeight
          /\ DOMAIN grid.data = 0 .. grid.width * grid.height - 1
          /\ \A x \in 0 .. grid.width - 1, y \in 0 .. grid.height - 1 :
                 /\ Index(grid, Point(x, y), overflowChecks) = [ok |-> TRUE, idx |-> y * grid.width + x]
                 /\ ReadCell(grid, Point(x, y), overflowChecks) = grid.data[y * grid.width + x]
                 /\ PointOf(grid, y * grid.width + x) = Point(x, y))
    /\ [][grid'.width = grid.width /\ grid'.height = grid.height]_vars

C18_Witness ==
    /\ Ticked /\ grid # prev
    /\ grid.width >= 2 /\ grid.height >= 2 /\ grid.width # grid.height
    /\ Cardinality(Occupied(grid)) >= 2


\* C19: once no further placement occurs (from some point on the last
\* operation on the grid is never a placement), repeated updates reach a
\* fixed point after finitely many ticks: from some tick on the grid equals
\* the grid before the tick, for ever.
C19_EventuallySettles ==
    <>[](lastOp.op # "place") => <>[](Ticked /\ status = "ok" /\ grid = prev)

C19_Witness ==
    /\ Ticked /\ status = "ok" /\ grid = prev
    /\ Cardinality(Occupied(grid)) >= 2
    /\ \E i \in Occupied(grid) : i + grid.width \in Occupied(grid)
    /\ \E c \in DOMAIN grid.data : c \notin Occupied(grid)


\* The number of occupied cells of g in the rows 0 .. k.
CountThroughRow(g, k) ==
    Cardinality({i \in Occupied(g) : i \div g.width <= k})

\* C20: an update never increases the number of occupied cells, nor, for
\* any row k, the number of occupied cells in the rows 0 .. k: a tick
\* creates no particle and moves none upward.
C20_NoCreationNoRise ==
    (Ticked /\ lastOp.outcome = "ok") =>
        /\ Cardinality(Occupied(grid)) <= Cardinality(Occupied(prev))
        /\ \A k \in 0 .. prev.height - 1 :
               CountThroughRow(grid, k) <= CountThroughRow(prev, k)

C20_Witness ==
    /\ Ticked /\ lastOp.outcome = "ok"
    /\ Cardinality(Occupied(grid)) < Cardinality(Occupied(prev))
    /\ \E k \in 0 .. prev.height - 1 :
           /\ CountThroughRow(grid, k) < CountThroughRow(prev, k)
           /\ CountThroughRow(grid, k) > 0

=============================================================================
